---- MODULE Spec2Model ----
(***************************************************************************)
(* ReadyCatholic news aggregator (catholic_news_aggregator.py).            *)
(*                                                                         *)
(* fetch_headlines walks the configured sources in order, fetches each     *)
(* feed, normalises and classifies the first max_per_source entries into   *)
(* seven categories, and truncates each category to its cap.  main renders *)
(* the result and writes it to index.html.                                 *)
(*                                                                         *)
(* Text is modelled as sequences of one-character strings so that          *)
(* lower(), html.escape() and the "in" substring test are computed.        *)
(***************************************************************************)
EXTENDS Integers, Sequences, FiniteSets, TLC

\* ------------------------------------------------------------------ bounds

\* Largest max_per_source a direct call of fetch_headlines is given.
MaxPerSource == 3
\* Number of entries the ordinary (baseline) feed of a source serves.
MaxEntries == 2
\* Number of sources per run whose feed departs from the baseline feed.
MaxVaried == 1

\* ------------------------------------------------------- program constants

\* def fetch_headlines(max_per_source=3)
DefaultMaxPerSource == 3
\* limit = 15 if category != 'breaking' else 5
BreakingLimit == 5
CategoryLimit == 15

\* Keys of CATHOLIC_NEWS_SOURCES in insertion order (dict iteration order).
CATHOLIC_NEWS_SOURCES ==
    << "Vatican News", "Catholic News Agency", "National Catholic Register",
       "EWTN News", "Aleteia", "Catholic World Report", "Crux", "LifeSiteNews",
       "Big Pulpit", "Catholic Culture", "Catholic Daily Reflections",
       "Catholic Stand", "Catholic Education", "ChurchPOP", "New Advent",
       "OSV News", "Spirit Daily", "TFP.org", "The Catholic Herald",
       "The Pillar", "Zenit" >>

NumSources == Len(CATHOLIC_NEWS_SOURCES)

\* Keys of the headlines dict, in insertion order.
Categories ==
    << "breaking", "vatican", "america", "faith", "culture", "world", "education" >>

CategorySet == { Categories[n] : n \in 1..Len(Categories) }

\* ------------------------------------------------------------------- text

Min(a, b) == IF a < b THEN a ELSE b

\* str.lower() on one character (ASCII letters).
LowerChar(c) ==
    CASE c = "A" -> "a" [] c = "B" -> "b" [] c = "C" -> "c" [] c = "D" -> "d"
      [] c = "E" -> "e" [] c = "F" -> "f" [] c = "G" -> "g" [] c = "H" -> "h"
      [] c = "I" -> "i" [] c = "J" -> "j" [] c = "K" -> "k" [] c = "L" -> "l"
      [] c = "M" -> "m" [] c = "N" -> "n" [] c = "O" -> "o" [] c = "P" -> "p"
      [] c = "Q" -> "q" [] c = "R" -> "r" [] c = "S" -> "s" [] c = "T" -> "t"
      [] c = "U" -> "u" [] c = "V" -> "v" [] c = "W" -> "w" [] c = "X" -> "x"
      [] c = "Y" -> "y" [] c = "Z" -> "z" [] OTHER -> c

\* str.lower()
Lower(s) == [n \in 1..Len(s) |-> LowerChar(s[n])]

\* sub in s (substring test)
Contains(sub, s) ==
    \E n \in 1..(Len(s) - Len(sub) + 1) : SubSeq(s, n, n + Len(sub) - 1) = sub

\* html.escape on one character (quote=True).
EscapeChar(c) ==
    CASE c = "&" -> << "&", "a", "m", "p", ";" >>
      [] c = "<" -> << "&", "l", "t", ";" >>
      [] c = ">" -> << "&", "g", "t", ";" >>
      [] c = "\"" -> << "&", "q", "u", "o", "t", ";" >>
      [] c = "'" -> << "&", "#", "x", "2", "7", ";" >>
      [] OTHER -> << c >>

\* html.escape
RECURSIVE escape(_)
escape(s) == IF s = << >> THEN << >> ELSE EscapeChar(Head(s)) \o escape(Tail(s))

\* The keywords of the classification chain.
KwPope == << "p", "o", "p", "e" >>
KwVatican == << "v", "a", "t", "i", "c", "a", "n" >>
KwUs == << "u", "s" >>
KwFaith == << "f", "a", "i", "t", "h" >>
KwLife == << "l", "i", "f", "e" >>
KwCulture == << "c", "u", "l", "t", "u", "r", "e" >>
KwWorld == << "w", "o", "r", "l", "d" >>
KwSchool == << "s", "c", "h", "o", "o", "l" >>
KwEducation == << "e", "d", "u", "c", "a", "t", "i", "o", "n" >>

\* The defaults of entry.get.
NoTitle == << "N", "o", " ", "t", "i", "t", "l", "e" >>
NoLink == "#"

\* ---------------------------------------------------------------- entries

\* A value of an entry field: a str, None, or the key missing from the entry.
\* A title's v is a sequence of characters; a link's v is an opaque string.
Str(s) == [t |-> "str", v |-> s]
NoneTitle == [t |-> "none", v |-> << >>]
AbsentTitle == [t |-> "absent", v |-> << >>]
AbsentLink == [t |-> "absent", v |-> ""]

\* entry.get(key, default)
Get(entry, key, default) ==
    IF entry[key].t = "absent" THEN default ELSE entry[key]

\* escape(entry.get('title', 'No title')) raises AttributeError unless the
\* value is a str; the exception leaves the per-source try block.
Raises(entry) == Get(entry, "title", Str(NoTitle)).t # "str"

\* MakeHeadline with other defaults for a missing title and link.
MakeHeadline_otherDefaults(entry, source_name) ==
    [ title  |-> escape(Get(entry, "title", Str(<< "U", "n", "t", "i", "t", "l", "e", "d" >>)).v),
      link   |-> Get(entry, "link", Str("")).v,
      source |-> source_name ]

\* headline = {'title': escape(...), 'link': entry.get('link', '#'), 'source': source_name}
MakeHeadline(entry, source_name) ==
    [ title  |-> escape(Get(entry, "title", Str(NoTitle)).v),
      link   |-> Get(entry, "link", Str(NoLink)).v,
      source |-> source_name ]

\* title_lower = entry.get('title', '').lower()
TitleLower(entry) == Lower(Get(entry, "title", Str(<< >>)).v)

\* AppendTo inserting at the front: headlines[category].insert(0, headline)
AppendTo_front(h, category, headline) ==
    [h EXCEPT ![category] = << headline >> \o @]

\* headlines[category].append(headline)
AppendTo(h, category, headline) ==
    [h EXCEPT ![category] = Append(@, headline)]

\* The rest of the chain below the breaking test, shared by the variants of
\* the chain that follow.
ChainBelowVatican(h, headline, source_name, title_lower) ==
    IF source_name \in {"Catholic Daily Reflections", "Catholic Stand", "Spirit Daily"}
            \/ Contains(KwFaith, title_lower)
    THEN AppendTo(h, "faith", headline)
    ELSE IF source_name \in {"LifeSiteNews", "TFP.org", "ChurchPOP"}
            \/ Contains(KwLife, title_lower) \/ Contains(KwCulture, title_lower)
    THEN AppendTo(h, "culture", headline)
    ELSE IF source_name \in {"Crux", "Zenit", "The Catholic Herald"}
            \/ Contains(KwWorld, title_lower)
    THEN AppendTo(h, "world", headline)
    ELSE IF source_name = "Catholic Education"
            \/ Contains(KwSchool, title_lower) \/ Contains(KwEducation, title_lower)
    THEN AppendTo(h, "education", headline)
    ELSE AppendTo(h, "faith", headline)

ChainBelowBreaking(h, headline, source_name, title_lower) ==
    IF Contains(KwPope, title_lower) \/ Contains(KwVatican, title_lower)
            \/ source_name = "Vatican News"
    THEN AppendTo(h, "vatican", headline)
    ELSE IF source_name \in {"National Catholic Register", "OSV News", "The Pillar"}
            \/ Contains(KwUs, title_lower)
    THEN AppendTo(h, "america", headline)
    ELSE ChainBelowVatican(h, headline, source_name, title_lower)

\* The chain with the breaking test as an if of its own, followed by a
\* second if/elif chain: a breaking headline is appended twice.
AppendClassified_twoIfs(h, headline, source_name, title_lower, i) ==
    IF i = 0 /\ source_name \in {"Vatican News", "The Pillar", "OSV News"}
    THEN ChainBelowBreaking(AppendTo(h, "breaking", headline), headline,
                            source_name, title_lower)
    ELSE ChainBelowBreaking(h, headline, source_name, title_lower)

\* The chain whose breaking test leaves out i == 0.
AppendClassified_anyPosition(h, headline, source_name, title_lower, i) ==
    IF source_name \in {"Vatican News", "The Pillar", "OSV News"}
    THEN AppendTo(h, "breaking", headline)
    ELSE ChainBelowBreaking(h, headline, source_name, title_lower)

\* The chain with the america test ahead of the vatican test.
AppendClassified_americaFirst(h, headline, source_name, title_lower, i) ==
    IF i = 0 /\ source_name \in {"Vatican News", "The Pillar", "OSV News"}
    THEN AppendTo(h, "breaking", headline)
    ELSE IF source_name \in {"National Catholic Register", "OSV News", "The Pillar"}
            \/ Contains(KwUs, title_lower)
    THEN AppendTo(h, "america", headline)
    ELSE IF Contains(KwPope, title_lower) \/ Contains(KwVatican, title_lower)
            \/ source_name = "Vatican News"
    THEN AppendTo(h, "vatican", headline)
    ELSE ChainBelowVatican(h, headline, source_name, title_lower)

\* The if/elif chain of fetch_headlines: the headlines dict after the entry
\* at position i of source_name has been classified and appended.
AppendClassified(h, headline, source_name, title_lower, i) ==
    IF i = 0 /\ source_name \in {"Vatican News", "The Pillar", "OSV News"}
    THEN AppendTo(h, "breaking", headline)
    ELSE IF Contains(KwPope, title_lower) \/ Contains(KwVatican, title_lower)
            \/ source_name = "Vatican News"
    THEN AppendTo(h, "vatican", headline)
    ELSE IF source_name \in {"National Catholic Register", "OSV News", "The Pillar"}
            \/ Contains(KwUs, title_lower)
    THEN AppendTo(h, "america", headline)
    ELSE IF source_name \in {"Catholic Daily Reflections", "Catholic Stand", "Spirit Daily"}
            \/ Contains(KwFaith, title_lower)
    THEN AppendTo(h, "faith", headline)
    ELSE IF source_name \in {"LifeSiteNews", "TFP.org", "ChurchPOP"}
            \/ Contains(KwLife, title_lower) \/ Contains(KwCulture, title_lower)
    THEN AppendTo(h, "culture", headline)
    ELSE IF source_name \in {"Crux", "Zenit", "The Catholic Herald"}
            \/ Contains(KwWorld, title_lower)
    THEN AppendTo(h, "world", headline)
    ELSE IF source_name = "Catholic Education"
            \/ Contains(KwSchool, title_lower) \/ Contains(KwEducation, title_lower)
    THEN AppendTo(h, "education", headline)
    ELSE AppendTo(h, "faith", headline)

\* headlines = {'breaking': [], ...}
EmptyHeadlines == [c \in CategorySet |-> << >>]

\* ------------------------------------------------------------ remote feeds

\* What feedparser.parse(feed_url) gives: an exception (ok = FALSE) or a feed
\* whose entries list may be empty.
ParseFailure == [ok |-> FALSE, entries |-> << >>]
ParseResult(entries) == [ok |-> TRUE, entries |-> entries]

TitleMass == << "M", "a", "s", "s" >>
TitlePope == << "P", "o", "p", "e" >>
TitleJesus == << "J", "e", "s", "u", "s" >>
TitleAmp == << "A", "&", "B" >>
TitleSchool == << "S", "c", "h", "o", "o", "l" >>

BaseTitles == << TitleMass, TitleJesus, TitlePope, TitleAmp, TitleSchool >>
BaseLinks == << "l1", "l2", "l3", "l4", "l5" >>

\* The n-th entry of the baseline feed: entries differ by position.
BaseEntry(n) ==
    [ title |-> Str(BaseTitles[((n - 1) % Len(BaseTitles)) + 1]),
      link  |-> Str(BaseLinks[((n - 1) % Len(BaseLinks)) + 1]) ]

BaseFeed == ParseResult([n \in 1..MaxEntries |-> BaseEntry(n)])

\* An entry whose title is None.
NoneEntry == [title |-> NoneTitle, link |-> Str("l9")]

\* The feeds by which a source may depart from the baseline.
VariedFeeds ==
    { ParseFailure,
      ParseResult(<< >>),
      ParseResult(<< BaseEntry(1), NoneEntry, BaseEntry(3) >>) }

\* ------------------------------------------------------------------ state

VARIABLES
    mpc,             \* main: "direct" (fetch_headlines called directly),
                     \*   "raised" (it left the direct call by an exception),
                     \*   "fetch", "open", "write", "report", "ok", "caught"
    pc,              \* fetch_headlines: "loop", "entries", "truncate", "done"
    max_per_source,  \* the parameter of fetch_headlines
    srcIdx,          \* position of source_name in CATHOLIC_NEWS_SOURCES
    feed,            \* feed.entries of the source being processed
    i,               \* position of the next entry in feed.entries[:max_per_source]
    headlines,       \* the headlines dict
    fetched,         \* per source: what its fetch gave and how its try block ended
    origin,          \* per category: the (source, entry) position of each headline
    varied,          \* sources so far whose feed departed from the baseline
    html_content,    \* main: the rendered page
    file,            \* index.html
    file0            \* index.html as the previous run left it

vars == << mpc, pc, max_per_source, srcIdx, feed, i, headlines, fetched,
           origin, varied, html_content, file, file0 >>

mainVars == << mpc, html_content, file, file0 >>

source_name == CATHOLIC_NEWS_SOURCES[srcIdx]

NoFile == [exists |-> FALSE, content |-> << >>]
PreviousFile ==
    [exists |-> TRUE, content |-> << [part |-> "previous", items |-> << >>] >>]

Pending == [status |-> "pending", entries |-> << >>]

\* State at the first iteration of the loop over CATHOLIC_NEWS_SOURCES.
EnterFetch(k) ==
    /\ pc = "loop"
    /\ max_per_source = k
    /\ srcIdx = 1
    /\ feed = << >>
    /\ i = 0
    /\ headlines = EmptyHeadlines
    /\ fetched = [s \in 1..NumSources |-> Pending]
    /\ origin = [c \in CategorySet |-> << >>]
    /\ varied = 0

\* fetch_headlines is called directly with some max_per_source.
Init ==
    /\ mpc = "direct"
    /\ html_content = << >>
    /\ file = NoFile
    /\ file0 = file
    /\ \E k \in 0..MaxPerSource : EnterFetch(k)

\* main runs, over an index.html that exists or not, and calls
\* fetch_headlines with the default max_per_source.
InitMain ==
    /\ mpc = "fetch"
    /\ html_content = << >>
    /\ file \in {NoFile, PreviousFile}
    /\ file0 = file
    /\ EnterFetch(DefaultMaxPerSource)

\* ------------------------------------------------------- fetch_headlines

\* The for statement takes the next source, or the loop ends.
NextSource ==
    /\ srcIdx' = srcIdx + 1
    /\ pc' = IF srcIdx = NumSources THEN "truncate" ELSE "loop"
    /\ feed' = << >>
    /\ i' = 0

\* The feeds feedparser.parse may give for the current source.
Served == IF varied < MaxVaried THEN VariedFeeds \cup {BaseFeed} ELSE {BaseFeed}

Fetch(r) ==
    /\ pc = "loop"
    /\ mpc \in {"direct", "fetch"}
    /\ r \in Served
    /\ varied' = IF r = BaseFeed THEN varied ELSE varied + 1

\* feedparser.parse raises: the except clause prints, the loop goes on.
FetchFails ==
    \E r \in Served :
        /\ Fetch(r)
        /\ ~r.ok
        /\ fetched' = [fetched EXCEPT ![srcIdx] = [status |-> "failed", entries |-> << >>]]
        /\ NextSource
        /\ UNCHANGED << headlines, origin, max_per_source >>
        /\ UNCHANGED mainVars

\* feedparser.parse raises with a message stdout cannot encode: the print of the
\* except clause raises in its turn and fetch_headlines ends with that
\* exception, in the middle of the loop.  A direct caller gets the exception
\* ("raised"); main catches it in its own except clause ("caught").
FetchFailsPrintRaises ==
    \E r \in Served :
        /\ Fetch(r)
        /\ ~r.ok
        /\ fetched' = [fetched EXCEPT ![srcIdx] = [status |-> "failed", entries |-> << >>]]
        /\ mpc' = IF mpc = "fetch" THEN "caught" ELSE "raised"
        /\ UNCHANGED << pc, srcIdx, feed, i, headlines, origin, max_per_source >>
        /\ UNCHANGED << html_content, file, file0 >>

\* if not feed.entries: continue
FetchEmpty ==
    \E r \in Served :
        /\ Fetch(r)
        /\ r.ok /\ r.entries = << >>
        /\ fetched' = [fetched EXCEPT ![srcIdx] = [status |-> "empty", entries |-> << >>]]
        /\ NextSource
        /\ UNCHANGED << headlines, origin, max_per_source >>
        /\ UNCHANGED mainVars

\* The feed has entries: enter the loop over feed.entries[:max_per_source].
FetchOk ==
    \E r \in Served :
        /\ Fetch(r)
        /\ r.ok /\ r.entries # << >>
        /\ fetched' = [fetched EXCEPT ![srcIdx] = [status |-> "ok", entries |-> r.entries]]
        /\ feed' = r.entries
        /\ i' = 0
        /\ pc' = "entries"
        /\ UNCHANGED << srcIdx, headlines, origin, max_per_source >>
        /\ UNCHANGED mainVars

\* SliceLen without the slice: for i, entry in enumerate(feed.entries)
SliceLen_noSlice == Len(feed)

\* len(feed.entries[:max_per_source])
SliceLen == Min(max_per_source, Len(feed))

\* One iteration of the inner loop: build the headline, classify, append.
ProcessEntry ==
    /\ pc = "entries"
    /\ i < SliceLen
    /\ ~Raises(feed[i + 1])
    /\ headlines' = AppendClassified(headlines, MakeHeadline(feed[i + 1], source_name),
                                     source_name, TitleLower(feed[i + 1]), i)
    /\ origin' = [c \in CategorySet |->
                    IF headlines'[c] # headlines[c]
                    THEN Append(origin[c], << srcIdx, i >>) ELSE origin[c]]
    /\ i' = i + 1
    /\ UNCHANGED << pc, srcIdx, feed, fetched, varied, max_per_source >>
    /\ UNCHANGED mainVars

\* An iteration raises: the except clause prints, the loop over the sources
\* goes on; what was appended before stays.
EntryRaises ==
    /\ pc = "entries"
    /\ i < SliceLen
    /\ Raises(feed[i + 1])
    /\ fetched' = [fetched EXCEPT ![srcIdx].status = "error"]
    /\ NextSource
    /\ UNCHANGED << headlines, origin, varied, max_per_source >>
    /\ UNCHANGED mainVars

\* The inner loop is exhausted.
EndEntries ==
    /\ pc = "entries"
    /\ i >= SliceLen
    /\ NextSource
    /\ UNCHANGED << headlines, origin, fetched, varied, max_per_source >>
    /\ UNCHANGED mainVars

\* limit = 15 if category != 'breaking' else 5
Limit(category) == IF category # "breaking" THEN CategoryLimit ELSE BreakingLimit

\* Slice keeping the tail: lst[-limit:]
Slice_tail(lst, limit) == SubSeq(lst, Len(lst) - Min(limit, Len(lst)) + 1, Len(lst))

\* lst[:limit]
Slice(lst, limit) == SubSeq(lst, 1, Min(limit, Len(lst)))

\* for category in headlines: headlines[category] = headlines[category][:limit];
\* return headlines
Truncate ==
    /\ pc = "truncate"
    /\ headlines' = [c \in CategorySet |-> Slice(headlines[c], Limit(c))]
    /\ origin' = [c \in CategorySet |-> Slice(origin[c], Limit(c))]
    /\ pc' = "done"
    /\ UNCHANGED << srcIdx, feed, i, fetched, varied, max_per_source >>
    /\ UNCHANGED mainVars

\* ------------------------------------------------------------------ main

fetchVars == << pc, max_per_source, srcIdx, feed, i, headlines, fetched, origin, varied >>

\* The page generate_html builds, as its parts in document order.
generate_html(h) ==
    << [part |-> "date", items |-> << >>],
       [part |-> "breaking", items |-> h["breaking"]],
       [part |-> "vatican", items |-> h["vatican"]],
       [part |-> "america", items |-> h["america"]],
       [part |-> "faith", items |-> h["faith"]],
       [part |-> "culture", items |-> h["culture"]],
       [part |-> "world", items |-> h["world"]],
       [part |-> "education", items |-> h["education"]],
       [part |-> "footer", items |-> << >>] >>

\* html_content = generate_html(headlines)
MainRender ==
    /\ mpc = "fetch" /\ pc = "done"
    /\ html_content' = generate_html(headlines)
    /\ mpc' = "open"
    /\ UNCHANGED << file, file0 >>
    /\ UNCHANGED fetchVars

\* generate_html raises (no time zone data for America/New_York).
MainRenderFails ==
    /\ mpc = "fetch" /\ pc = "done"
    /\ mpc' = "caught"
    /\ UNCHANGED << html_content, file, file0 >>
    /\ UNCHANGED fetchVars

\* open('index.html', 'w', encoding='utf-8'): creates the file or truncates it.
MainOpen ==
    /\ mpc = "open"
    /\ file' = [exists |-> TRUE, content |-> << >>]
    /\ mpc' = "write"
    /\ UNCHANGED << html_content, file0 >>
    /\ UNCHANGED fetchVars

\* open raises (no permission): the file is untouched.
MainOpenFails ==
    /\ mpc = "open"
    /\ mpc' = "caught"
    /\ UNCHANGED << html_content, file, file0 >>
    /\ UNCHANGED fetchVars

\* f.write(html_content) and the close at the end of the with block; the
\* success message is still to be printed.
MainWrite ==
    /\ mpc = "write"
    /\ file' = [file EXCEPT !.content = html_content]
    /\ mpc' = "report"
    /\ UNCHANGED << html_content, file0 >>
    /\ UNCHANGED fetchVars

\* The write (or the flush at close) raises: any proper prefix of the page,
\* possibly nothing, has reached the file.
MainWriteFails ==
    /\ mpc = "write"
    /\ \E n \in 0..(Len(html_content) - 1) :
          file' = [file EXCEPT !.content = SubSeq(html_content, 1, n)]
    /\ mpc' = "caught"
    /\ UNCHANGED << html_content, file0 >>
    /\ UNCHANGED fetchVars

\* print("\n\u2713 Successfully updated ReadySetCatholic!"): main ends normally.
MainReport ==
    /\ mpc = "report"
    /\ mpc' = "ok"
    /\ UNCHANGED << html_content, file, file0 >>
    /\ UNCHANGED fetchVars

\* The print raises (stdout cannot encode U+2713): the except clause is
\* entered with the whole page already in the closed file.
MainReportFails ==
    /\ mpc = "report"
    /\ mpc' = "caught"
    /\ UNCHANGED << html_content, file, file0 >>
    /\ UNCHANGED fetchVars

Next ==
    \/ FetchFails
    \/ FetchFailsPrintRaises
    \/ FetchEmpty
    \/ FetchOk
    \/ ProcessEntry
    \/ EntryRaises
    \/ EndEntries
    \/ Truncate

Spec == Init /\ [][Next]_vars

NextMain ==
    \/ FetchFails
    \/ FetchFailsPrintRaises
    \/ FetchEmpty
    \/ FetchOk
    \/ ProcessEntry
    \/ EntryRaises
    \/ EndEntries
    \/ Truncate
    \/ MainRender
    \/ MainRenderFails
    \/ MainOpen
    \/ MainOpenFails
    \/ MainWrite
    \/ MainWriteFails
    \/ MainReport
    \/ MainReportFails

SpecMain == InitMain /\ [][NextMain]_vars

\* ------------------------------------------- classification, entry by entry

TitleVatican == << "V", "A", "T", "I", "C", "A", "N" >>
TitleUsPope == << "U", "S", " ", "P", "o", "p", "e" >>
TitlePop == << "P", "o", "p" >>
TitleFaithLife == << "F", "a", "i", "t", "h", " ", "l", "i", "f", "e" >>
TitleCulture == << "C", "u", "l", "t", "u", "r", "e" >>
TitleWorldSchool == << "W", "o", "r", "l", "d", " ", "s", "c", "h", "o", "o", "l" >>
TitleEducation == << "E", "d", "u", "c", "a", "t", "i", "o", "n" >>
TitleQuoted == << "<", "Q", ">", "'", "\"" >>

\* Titles that meet each keyword, several keywords, none, and the characters
\* html.escape rewrites.
TitleFixtures ==
    { << >>, TitleMass, TitlePope, TitleJesus, TitleAmp, TitleSchool, TitleVatican,
      TitleUsPope, TitlePop, TitleFaithLife, TitleCulture, TitleWorldSchool,
      TitleEducation, TitleQuoted, NoTitle }

EntryFixtures ==
    { [title |-> t, link |-> l] :
        t \in { Str(x) : x \in TitleFixtures } \cup { AbsentTitle, NoneTitle },
        l \in { Str("l1"), AbsentLink } }

\* The inner loop is entered for any one source, every source before it having
\* failed to fetch, over a feed that repeats one entry.
InitClassify ==
    /\ mpc = "direct"
    /\ html_content = << >>
    /\ file = NoFile
    /\ file0 = NoFile
    /\ pc = "entries"
    /\ max_per_source = MaxPerSource
    /\ srcIdx \in 1..NumSources
    /\ \E e \in EntryFixtures : feed = [n \in 1..MaxEntries |-> e]
    /\ i = 0
    /\ headlines = EmptyHeadlines
    /\ fetched = [s \in 1..NumSources |->
                    IF s < srcIdx THEN [status |-> "failed", entries |-> << >>]
                    ELSE IF s = srcIdx THEN [status |-> "ok", entries |-> feed]
                    ELSE Pending]
    /\ origin = [c \in CategorySet |-> << >>]
    /\ varied = 0

NextClassify ==
    \/ ProcessEntry
    \/ EntryRaises
    \/ EndEntries

SpecClassify == InitClassify /\ [][NextClassify]_vars

\* ================================================================== claims

\* The rule list of the specification, in its order of precedence.
RuleOrder ==
    << "breaking", "vatican", "america", "faith", "culture", "world", "education" >>

RuleHolds(rule, name, tl, pos) ==
    CASE rule = "breaking" ->
           pos = 0 /\ name \in {"Vatican News", "The Pillar", "OSV News"}
      [] rule = "vatican" ->
           \/ Contains(<< "p", "o", "p", "e" >>, tl)
           \/ Contains(<< "v", "a", "t", "i", "c", "a", "n" >>, tl)
           \/ name = "Vatican News"
      [] rule = "america" ->
           \/ name \in {"National Catholic Register", "OSV News", "The Pillar"}
           \/ Contains(<< "u", "s" >>, tl)
      [] rule = "faith" ->
           \/ name \in {"Catholic Daily Reflections", "Catholic Stand", "Spirit Daily"}
           \/ Contains(<< "f", "a", "i", "t", "h" >>, tl)
      [] rule = "culture" ->
           \/ name \in {"LifeSiteNews", "TFP.org", "ChurchPOP"}
           \/ Contains(<< "l", "i", "f", "e" >>, tl)
           \/ Contains(<< "c", "u", "l", "t", "u", "r", "e" >>, tl)
      [] rule = "world" ->
           \/ name \in {"Crux", "Zenit", "The Catholic Herald"}
           \/ Contains(<< "w", "o", "r", "l", "d" >>, tl)
      [] rule = "education" ->
           \/ name = "Catholic Education"
           \/ Contains(<< "s", "c", "h", "o", "o", "l" >>, tl)
           \/ Contains(<< "e", "d", "u", "c", "a", "t", "i", "o", "n" >>, tl)

Matching(name, tl, pos) ==
    { r \in 1..Len(RuleOrder) : RuleHolds(RuleOrder[r], name, tl, pos) }

\* The category of the first rule, from rule r on, that holds; faith when
\* none does.
RECURSIVE FirstMatch(_, _, _, _)
FirstMatch(r, name, tl, pos) ==
    IF r > Len(RuleOrder) THEN "faith"
    ELSE IF RuleHolds(RuleOrder[r], name, tl, pos) THEN RuleOrder[r]
    ELSE FirstMatch(r + 1, name, tl, pos)

RefCategory(name, tl, pos) == FirstMatch(1, name, tl, pos)

\* The title text the rules read: the entry's title, "No title" when it has none.
RefTitle(entry) ==
    IF entry.title.t = "absent" THEN << "N", "o", " ", "t", "i", "t", "l", "e" >>
    ELSE entry.title.v

SourceName(s) == CATHOLIC_NEWS_SOURCES[s]

\* The headlines of a sequence that carry a source's name.
FromSource(seq, name) == SelectSeq(seq, LAMBDA h : h.source = name)

TotalLen(h) ==
    Len(h["breaking"]) + Len(h["vatican"]) + Len(h["america"]) + Len(h["faith"])
      + Len(h["culture"]) + Len(h["world"]) + Len(h["education"])

\* The entry a headline was built from: origin holds its source and position.
EntryAt(o) == fetched[o[1]].entries[o[2] + 1]

\* The categories holding a headline built from entry pos of source s.
Holding(s, pos) ==
    { c \in CategorySet : \E n \in 1..Len(origin[c]) : origin[c][n] = << s, pos >> }

\* Number of entries of source s processed before an entry raised or the slice
\* feed.entries[:max_per_source] ended.
Processed(s) ==
    LET es  == fetched[s].entries
        m   == Min(max_per_source, Len(es))
        bad == { n \in 1..m : es[n].title.t = "none" }
    IN  IF bad = {} THEN m ELSE (CHOOSE n \in bad : \A q \in bad : n <= q) - 1

\* The headlines of the first n entries of es, read as the feed of source
\* name, that the rules send to category c, in entry order.
RECURSIVE Routed(_, _, _, _)
Routed(es, n, name, c) ==
    IF n = 0 THEN << >>
    ELSE IF RefCategory(name, Lower(RefTitle(es[n])), n - 1) = c
    THEN Append(Routed(es, n - 1, name, c), MakeHeadline(es[n], name))
    ELSE Routed(es, n - 1, name, c)

\* What source s alone gives category c.
Contribution(s, c) ==
    Routed(fetched[s].entries, Processed(s), SourceName(s), c)

IsPrefix(a, b) == Len(a) <= Len(b) /\ SubSeq(b, 1, Len(a)) = a

\* C1: a failed fetch of a source S does not keep any later source T from being
\* fetched and processed: fetch_headlines never ends by an exception while a
\* source after a failed one is still to be fetched, when the loop ends every
\* source has been fetched, and each source after a failed one has given every
\* category exactly what its own feed gives, as if S had served no entries.
C1_FailureIsolated ==
    /\ \A s, t \in 1..NumSources :
          (s < t /\ fetched[s].status = "failed" /\ fetched[t].status = "pending") =>
              mpc \notin {"raised", "caught"}
    /\ pc \in {"truncate", "done"} =>
          \A s \in 1..NumSources : fetched[s].status # "pending"
    /\ pc = "truncate" =>
          \A t \in 1..NumSources :
              (\E s \in 1..(t - 1) : fetched[s].status = "failed") =>
                  \A c \in CategorySet :
                      FromSource(headlines[c], SourceName(t)) = Contribution(t, c)

\* C2: every processed entry has put its headline into exactly one of the seven
\* category sequences, and an entry that meets no rule has gone to faith.
C2_ExactlyOneCategory ==
    pc = "entries" =>
        /\ TotalLen(headlines) = i
        /\ \A pos \in 0..(i - 1) :
              /\ Cardinality(Holding(srcIdx, pos)) = 1
              /\ Matching(source_name, Lower(RefTitle(feed[pos + 1])), pos) = {}
                    => Holding(srcIdx, pos) = {"faith"}

C2_Witness ==
    /\ pc = "entries"
    /\ i = 2
    /\ Matching(source_name, Lower(RefTitle(feed[2])), 1) = {}
    /\ Len(headlines["faith"]) = 2

\* C4: a headline is in breaking exactly when it was built from position 0 of
\* Vatican News, The Pillar or OSV News; Vatican News at a later position goes
\* to vatican whatever its title.
C4_BreakingIffLead ==
    \A c \in CategorySet : \A n \in 1..Len(origin[c]) :
        LET o == origin[c][n]
        IN  /\ (c = "breaking") <=>
                  (o[2] = 0 /\ SourceName(o[1]) \in {"Vatican News", "The Pillar", "OSV News"})
            /\ (SourceName(o[1]) = "Vatican News" /\ o[2] >= 1) => c = "vatican"

C4_Witness ==
    /\ pc = "entries"
    /\ source_name = "Vatican News"
    /\ i = 2
    /\ feed[2].title = Str(TitleJesus)
    /\ Len(headlines["breaking"]) = 1
    /\ Len(headlines["vatican"]) = 1

\* C5: the category of every headline is that of the first rule, in the order
\* breaking, vatican, america, faith, culture, world, education, that holds for
\* its source, title and position (faith when none holds).
C5_FirstMatchWins ==
    \A c \in CategorySet : \A n \in 1..Len(origin[c]) :
        LET o == origin[c][n]
        IN  c = RefCategory(SourceName(o[1]), Lower(RefTitle(EntryAt(o))), o[2])

C5_Witness ==
    /\ pc = "entries"
    /\ source_name = "Catholic Stand"
    /\ i = 2
    /\ feed[1].title = Str(TitleUsPope)
    /\ Len(headlines["vatican"]) = 2

\* C8: an entry without a title gives a headline titled "No title", an entry
\* without a link gives the link "#", and the title-less entry is classified
\* as the rules classify the text "No title".
C8_MissingFields ==
    \A c \in CategorySet : \A n \in 1..Len(origin[c]) :
        LET o == origin[c][n]
            e == EntryAt(o)
        IN  /\ e.title.t = "absent" =>
                  /\ headlines[c][n].title = << "N", "o", " ", "t", "i", "t", "l", "e" >>
                  /\ c = RefCategory(SourceName(o[1]),
                                     Lower(<< "N", "o", " ", "t", "i", "t", "l", "e" >>), o[2])
            /\ e.link.t = "absent" => headlines[c][n].link = "#"

C8_Witness ==
    /\ pc = "entries"
    /\ i >= 1
    /\ feed[1] = [title |-> AbsentTitle, link |-> AbsentLink]
    /\ source_name = "Aleteia"
    /\ headlines["faith"][1].title = << "N", "o", " ", "t", "i", "t", "l", "e" >>
    /\ headlines["faith"][1].link = "#"

\* fetch_headlines has just returned its dict.
Returned == pc = "done" /\ mpc \in {"direct", "fetch"}

\* Number of headlines in the dict that carry the name of source s.
CountFrom(h, s) ==
    Len(FromSource(h["breaking"], SourceName(s)))
      + Len(FromSource(h["vatican"], SourceName(s)))
      + Len(FromSource(h["america"], SourceName(s)))
      + Len(FromSource(h["faith"], SourceName(s)))
      + Len(FromSource(h["culture"], SourceName(s)))
      + Len(FromSource(h["world"], SourceName(s)))
      + Len(FromSource(h["education"], SourceName(s)))

\* The dict h after entry n of source s is added where the rules send it.
RefAdd(h, s, n) ==
    LET e == fetched[s].entries[n]
        c == RefCategory(SourceName(s), Lower(RefTitle(e)), n - 1)
    IN  [h EXCEPT ![c] = Append(@, MakeHeadline(e, SourceName(s)))]

\* What source s alone gives, from its first m entries in entry order.
RECURSIVE RefEntries(_, _)
RefEntries(s, m) ==
    IF m = 0 THEN EmptyHeadlines ELSE RefAdd(RefEntries(s, m - 1), s, m)

\* What sources lo..hi give, source by source in configured order (the range
\* is halved so that the evaluation stays shallow).
RECURSIVE RefSources(_, _)
RefSources(lo, hi) ==
    IF lo = hi THEN RefEntries(lo, Processed(lo))
    ELSE LET mid   == (lo + hi) \div 2
             first == RefSources(lo, mid)
             rest  == RefSources(mid + 1, hi)
         IN  [c \in CategorySet |-> first[c] \o rest[c]]

\* What the collection gives by the rules: source by source in configured
\* order, from each the entries it had processed, in entry order.
RefCollected == RefSources(1, NumSources)

\* C3: the truncation leaves breaking with at most 5 headlines and every other
\* category with at most 15, each being the first min(n, cap) of the n
\* headlines collected for the category, in the same order.
C3_CapsKeepPrefix ==
    [][ pc = "truncate" =>
          \A c \in CategorySet :
              LET cap == IF c = "breaking" THEN 5 ELSE 15
                  n   == Len(headlines[c])
              IN  /\ Len(headlines'[c]) = Min(n, cap)
                  /\ Len(headlines'[c]) <= cap
                  /\ \A m \in 1..Min(n, cap) : headlines'[c][m] = headlines[c][m]
      ]_vars

C3_Witness ==
    /\ Returned
    /\ \E c \in CategorySet :
          /\ Len(RefCollected[c]) > 15
          /\ Len(headlines[c]) = 15
          /\ headlines[c] = SubSeq(RefCollected[c], 1, 15)

\* C6 as stated: every source that was fetched with n >= 1 entries and processed
\* to the end has exactly min(k, n) headlines in the returned dict, and with
\* k = 0 every returned category is empty.
C6_Original ==
    Returned =>
        /\ \A s \in 1..NumSources :
              fetched[s].status = "ok" =>
                  CountFrom(headlines, s) = Min(max_per_source, Len(fetched[s].entries))
        /\ max_per_source = 0 => headlines = EmptyHeadlines

\* What source s alone gives when its first min(k, n) entries are all
\* processed: per category the headlines of those entries the rules send
\* there, in order.
FrontOf(s) == RefEntries(s, Min(max_per_source, Len(fetched[s].entries)))

\* The headlines of source s in the dict, per category.
HeldOf(s) == [c \in CategorySet |-> FromSource(headlines[c], SourceName(s))]

Cap(c) == IF c = "breaking" THEN 5 ELSE 15

\* C6 amended: for a source fetched with n >= 1 entries whose first min(k, n)
\* entries are all processed without an error, the headlines collected from it
\* are exactly min(k, n), built in order from its first min(k, n) entries.  The
\* returned dict holds of each category a leading part of what the source gave
\* it, and all of it when the category stays below its cap, hence at most
\* min(k, n) headlines of the source.  With k = 0 no entry is processed: every
\* category is empty in every state, no source ends in an entry error, and the
\* function leaves by an exception only when a fetch failed and the print of
\* its message raised.
C6_TakenFromFront ==
    /\ pc = "truncate" =>
          \A s \in 1..NumSources :
              fetched[s].status = "ok" =>
                  /\ HeldOf(s) = FrontOf(s)
                  /\ CountFrom(headlines, s) = Min(max_per_source, Len(fetched[s].entries))
    /\ Returned =>
          \A s \in 1..NumSources :
              fetched[s].status = "ok" =>
                  LET held  == HeldOf(s)
                      front == FrontOf(s)
                  IN  /\ TotalLen(held) <= Min(max_per_source, Len(fetched[s].entries))
                      /\ \A c \in CategorySet :
                            /\ IsPrefix(held[c], front[c])
                            /\ Len(headlines[c]) < Cap(c) => held[c] = front[c]
    /\ max_per_source = 0 =>
          /\ headlines = EmptyHeadlines
          /\ \A s \in 1..NumSources : fetched[s].status # "error"
          /\ mpc = "raised" => fetched[srcIdx].status = "failed"

C6_Witness ==
    /\ Returned
    /\ max_per_source = 1
    /\ \E s \in 1..NumSources :
          /\ fetched[s].status = "ok"
          /\ Len(fetched[s].entries) = 2
          /\ CountFrom(headlines, s) = 1
          /\ \E c \in CategorySet :
                FromSource(headlines[c], SourceName(s))
                  = << MakeHeadline(fetched[s].entries[1], SourceName(s)) >>

\* C7 as stated: a source whose fetch failed, whose feed was empty or whose
\* processing ended in a caught error has no headline in the returned dict.
C7_FailedSourceGivesNothing ==
    Returned =>
        \A s \in 1..NumSources :
            fetched[s].status \in {"failed", "empty", "error"} =>
                CountFrom(headlines, s) = 0

\* Lexicographic order on (source position, entry position).
Before(a, b) == a[1] < b[1] \/ (a[1] = b[1] /\ a[2] < b[2])

Ordered ==
    \A c \in CategorySet :
        /\ Len(origin[c]) = Len(headlines[c])
        /\ \A n \in 1..Len(origin[c]) :
              /\ headlines[c][n].source = SourceName(origin[c][n][1])
              /\ headlines[c][n].link = (IF EntryAt(origin[c][n]).link.t = "absent"
                                         THEN "#" ELSE EntryAt(origin[c][n]).link.v)
              /\ n > 1 => Before(origin[c][n - 1], origin[c][n])

AppendOnly ==
    pc \in {"loop", "entries"} =>
        \A c \in CategorySet : IsPrefix(headlines[c], headlines'[c])

\* C9: at every point, within each category the headlines stand in source
\* order and, within a source, in entry order; a step of the collection only
\* appends, leaving what a category already holds in place.
C9_InsertionOrder == []Ordered /\ [][AppendOnly]_vars

C9_Witness ==
    /\ pc = "entries"
    /\ \E n \in 2..Len(origin["america"]) :
          /\ origin["america"][n - 1][1] = origin["america"][n][1]
          /\ origin["america"][n - 1][2] < origin["america"][n][2]
          /\ \E m \in 1..(n - 1) : origin["america"][m][1] < origin["america"][n][1]

\* C10 as stated: when main ends in its except clause, index.html is as the
\* previous run left it.
C10_FailureLeavesFile ==
    mpc = "caught" => file = file0

====
